---- MODULE Spec2Model ----
(***************************************************************************)
(* Model of youtube_extractor.py: the YouTubeExtractor object (its video   *)
(* id and stored transcript), its methods, and the process_youtube_video   *)
(* pipeline that composes them.  Every call to an external collaborator    *)
(* (captions service, subprocess, whisper library, HTTP endpoint) is one   *)
(* step whose outcome is chosen from a small set.                          *)
(*                                                                         *)
(* The Chinese message literals of the source are written in ASCII here;   *)
(* each definition quotes the literal it stands for.                       *)
(***************************************************************************)
EXTENDS Integers, Sequences, FiniteSets, TLC

(***************************************************************************)
(* Bounds of the model.                                                    *)
(***************************************************************************)
MaxTracks == 3      \* longest captions catalogue
MaxEntries == 2     \* most caption entries returned by one fetch
MaxCalls == 2       \* method calls made by a caller that uses the class directly

(***************************************************************************)
(* Optional values: None is <<>>, a present value x is <<x>>.              *)
(***************************************************************************)
None == <<>>
Some(x) == <<x>>

\* faulty variant: only an unset transcript is refused (`is None` for `not`)
Truthy_notNone(opt) == opt # None

\* Python truthiness of an optional string: `if self.transcript`
Truthy(opt) == opt # None /\ opt[1] # ""

(***************************************************************************)
(* extract_video_id (lines 16-27)                                          *)
(***************************************************************************)
IdLen == 11         \* {11} in both patterns

Digits == {"0", "1", "2", "3", "4", "5", "6", "7", "8", "9"}
Upper == {"A", "B", "C", "D", "E", "F", "G", "H", "I", "J", "K", "L", "M",
          "N", "O", "P", "Q", "R", "S", "T", "U", "V", "W", "X", "Y", "Z"}
Lower == {"a", "b", "c", "d", "e", "f", "g", "h", "i", "j", "k", "l", "m",
          "n", "o", "p", "q", "r", "s", "t", "u", "v", "w", "x", "y", "z"}

\* the character class [0-9A-Za-z_-]
TokenChars == Digits \cup Upper \cup Lower \cup {"_", "-"}

CharAt(s, i) == SubSeq(s, i, i)

\* s[i .. i+IdLen-1] exists and consists of token characters
TokenAt(s, i) ==
    /\ i >= 1
    /\ i + IdLen - 1 <= Len(s)
    /\ \A k \in i..(i + IdLen - 1) : CharAt(s, k) \in TokenChars

\* literal prefix p at position i of s
LitAt(s, i, p) ==
    /\ i + Len(p) - 1 <= Len(s)
    /\ SubSeq(s, i, i + Len(p) - 1) = p

\* r'(?:v=|/)([0-9A-Za-z_-]{11}).*' matched at position i: the start of
\* group 1, or 0 when there is no match at i
Pattern1At(s, i) ==
    IF LitAt(s, i, "v=") /\ TokenAt(s, i + 2) THEN i + 2
    ELSE IF LitAt(s, i, "/") /\ TokenAt(s, i + 1) THEN i + 1
    ELSE 0

\* r'youtu.be/([0-9A-Za-z_-]{11})' matched at position i ('.' is any
\* character but a newline)
Pattern2At(s, i) ==
    IF /\ LitAt(s, i, "youtu")
       /\ i + 5 <= Len(s) /\ CharAt(s, i + 5) # "\n"
       /\ LitAt(s, i + 6, "be/")
       /\ TokenAt(s, i + 9)
    THEN i + 9
    ELSE 0

MinOf(S) == CHOOSE m \in S : \A n \in S : m <= n

\* re.search: the match at the leftmost position; group 1 or None
Search1(url) ==
    LET hits == {i \in 1..Len(url) : Pattern1At(url, i) # 0}
    IN  IF hits = {} THEN None
        ELSE LET g == Pattern1At(url, MinOf(hits))
             IN  Some(SubSeq(url, g, g + IdLen - 1))

Search2(url) ==
    LET hits == {i \in 1..Len(url) : Pattern2At(url, i) # 0}
    IN  IF hits = {} THEN None
        ELSE LET g == Pattern2At(url, MinOf(hits))
             IN  Some(SubSeq(url, g, g + IdLen - 1))

\* the patterns in order, first match wins; None stands for the ValueError
extract_video_id(url) ==
    IF Search1(url) # None THEN Search1(url)
    ELSE IF Search2(url) # None THEN Search2(url)
    ELSE None

\* references the pipeline is run on
Urls == { "https://www.youtube.com/watch?v=3MjS9w60MMw",
          "https://youtu.be/3MjS9w60MMw",
          "not a video reference" }

\* the two reference forms that carry a video id t, with what may follow it
LongForm(t, rest) == "https://www.youtube.com/watch?v=" \o t \o rest
ShortForm(t, rest) == "https://youtu.be/" \o t \o rest

\* video ids extract_video_id is applied to: 11 characters of the class each
SampleTokens == { "3MjS9w60MMw", "dQw4w9WgXcQ", "00000000000", "___________",
                  "-----------", "a_b-c_d-e_f", "ZZZZZZZZZZZ", "v-v_v-v_v-v" }
ValidUrls ==
    {LongForm(t, rest) : t \in SampleTokens, rest \in {"", "&t=42s"}}
    \cup {ShortForm(t, rest) : t \in SampleTokens, rest \in {"", "?t=42"}}

\* references that carry no video id in either form
MalformedUrls == { "",
                   "not a video reference",
                   "https://www.youtube.com/watch?v=short",
                   "https://youtu.be/short",
                   "https://www.youtube.com/playlist?list=PL0123456789abcdef",
                   "https://example.com/articles/2024-roundup",
                   "https://www.youtube.com/channel/UC1234567890abcdefghijkl",
                   "https://www.youtube.com/watch?v=3MjS9w60MMwEXTRA" }
ResolveUrls == ValidUrls \cup MalformedUrls

(***************************************************************************)
(* Message literals of the source.                                         *)
(***************************************************************************)
NotPerformed == "not performed"                      \* "未进行分析" (line 270)
MsgMissingFfmpeg == "cannot process audio: ffmpeg is missing"
                                                     \* "无法处理音频：缺少ffmpeg。请安装后再试。" (line 83)
MsgTranscribeFailed == "audio transcription failed"  \* "音频转录失败。" (line 169)
MsgNoOutputFile == "transcribed, but the output file was not found"
                                                     \* "转录完成，但找不到输出文件。" (line 179)
MsgProcessFailed(e) == "processing failed: " \o e    \* f"处理失败: {str(e)}" (line 183)
MsgAnalysisFailed(status, text) ==                   \* f"分析失败: {status_code} - {text}" (line 204)
    "analysis failed: " \o ToString(status) \o " - " \o text
MsgAnalysisError(e) == "analysis error: " \o e       \* f"分析过程中出错: {str(e)}" (line 208)
MsgApiFailed(status, text) ==                        \* f"API调用失败: {status_code} - {text}" (line 243)
    "API call failed: " \o ToString(status) \o " - " \o text
MsgDownloadedNotFound == "downloaded file not found" \* "下载文件未找到" (line 102)
MsgAudioNotFound == "download failed, file not found"
                                                     \* f"下载失败，无法找到文件: {audio_path}" (line 136)

\* the prompt both analysis methods build around the stored transcript
\* (lines 196 and 227): f"以下是YouTube视频的字幕内容：\n\n{self.transcript}\n\n{prompt}"
BuildPrompt(text, prompt) == "subtitles of the video:\n\n" \o text \o "\n\n" \o prompt

(***************************************************************************)
(* What the external collaborators can answer.                             *)
(***************************************************************************)
SeqsUpTo(S, n) == UNION {[1..k -> S] : k \in 0..n}

\* transcript objects of the captions service
Tracks == { [language_code |-> "en",    language |-> "English",          is_generated |-> TRUE],
            [language_code |-> "ja",    language |-> "Japanese",         is_generated |-> FALSE],
            [language_code |-> "zh",    language |-> "Chinese",          is_generated |-> FALSE],
            [language_code |-> "zh-TW", language |-> "Chinese (Taiwan)", is_generated |-> FALSE] }
LanguageCodes == {t.language_code : t \in Tracks}
Catalogues == SeqsUpTo(Tracks, MaxTracks)

\* caption entries; only the text field is read
EntryTexts == {"", "hello", "world"}
Entries == {[text |-> t] : t \in EntryTexts}
EntryLists == SeqsUpTo(Entries, MaxEntries)

\* exceptions subprocess.run(..., check=True) can raise, and their str()
RunErrors == {"CalledProcessError", "FileNotFoundError", "PermissionError"}
RunOutcomes == {"ok"} \cup RunErrors
ExcText(e) == e \o " raised"

\* texts the speech-to-text engine can produce; the last one has both kinds
\* of line ending a text-mode read translates
WhisperTexts == {"", "spoken words", "one\r\ntwo\rthree"}

\* lines 173-174: open(transcript_path, 'r', encoding='utf-8') reads in text
\* mode with universal newlines: every "\r\n" and every other "\r" of the
\* file comes back as "\n" (line 165 writes "\r" and "\n" as they are)
\* NewlinesFrom(s, i) is the translation of s from its i-th character on
RECURSIVE NewlinesFrom(_, _)
NewlinesFrom(s, i) ==
    IF i > Len(s) THEN ""
    ELSE IF CharAt(s, i) = "\r" /\ i < Len(s) /\ CharAt(s, i + 1) = "\n"
         THEN "\n" \o NewlinesFrom(s, i + 2)
    ELSE IF CharAt(s, i) = "\r" THEN "\n" \o NewlinesFrom(s, i + 1)
    ELSE CharAt(s, i) \o NewlinesFrom(s, i + 1)
UniversalNewlines(s) == NewlinesFrom(s, 1)

\* how many characters of a text the file system takes before it refuses
\* the rest (file size limit, full disk, quota)
WriteLimits == {0, 5}

\* lines 164-165: what <id>.txt holds after a write the file system refused
\* part of: the characters of t below the limit, none when every byte is
\* refused; a text that fits under the limit is written in full
PartWritten(t) == {SubSeq(t, 1, n) : n \in {l \in WriteLimits : l < Len(t)}}

\* files of the work directory are named by their extension after the
\* video id: f"{video_id}.mp3", f"{video_id}.txt", the raw download
\* f"{video_id}.webm" and an interrupted download f"{video_id}.webm.part"
Exts == {".mp3", ".txt", ".webm", ".webm.part"}

\* answers of an inference endpoint: requests.post raises, or returns a
\* response with a status code, a body text and (when the JSON body has
\* the expected field) the answer
HttpReplies ==
    { [raised |-> TRUE,  status |-> 0,   text |-> "",             answer |-> None],
      [raised |-> FALSE, status |-> 200, text |-> "json",         answer |-> Some("summary")],
      [raised |-> FALSE, status |-> 200, text |-> "{}",           answer |-> None],
      [raised |-> FALSE, status |-> 500, text |-> "server error", answer |-> None],
      [raised |-> FALSE, status |-> 404, text |-> "",             answer |-> None] }

\* the remote endpoint (line 235)
RemoteEndpoint == "https://api.anthropic.com/v1/messages"

\* faulty variant: the local analysis posts to the paid endpoint
LocalEndpoint_remote == RemoteEndpoint

\* the local endpoint (line 193)
LocalEndpoint == "http://localhost:11434/api/generate"

\* answers of the captions service to list_transcripts and get_transcript:
\* an exception ("none" when there is none) or the data
CaptionErrors == {"TranscriptsDisabled", "ConnectionError"}
ListReplies == {[error |-> e, tracks |-> <<>>] : e \in CaptionErrors}
               \cup {[error |-> "none", tracks |-> c] : c \in Catalogues}
FetchReplies == {[error |-> e, entries |-> <<>>] : e \in CaptionErrors}
                \cup {[error |-> "none", entries |-> e] : e \in EntryLists}

\* what a caller-provided output_dir may already hold
GivenDirFiles == {{}, {".txt"}, {".mp3"}, {".webm.part"}}
StaleText == "stale text"

Prompts == {"list the main points"}
ApiKeys == {"sk-key"}

(***************************************************************************)
(* Pure parts of the methods.                                              *)
(***************************************************************************)
\* ' '.join([entry['text'] for entry in transcript_list])   (line 55)
RECURSIVE JoinTexts(_)
JoinTexts(es) ==
    IF es = <<>> THEN ""
    ELSE IF Len(es) = 1 THEN es[1].text
    ELSE es[1].text \o " " \o JoinTexts(Tail(es))

\* the dict list built from the transcript objects (lines 33-40)
LanguagesOf(catalogue) ==
    [i \in 1..Len(catalogue) |->
        [language_code |-> catalogue[i].language_code,
         language      |-> catalogue[i].language,
         is_generated  |-> catalogue[i].is_generated]]

\* str.startswith
StartsWith(s, p) == Len(s) >= Len(p) /\ SubSeq(s, 1, Len(p)) = p

\* [lang for lang in available_languages if lang['language_code'].startswith('zh')]
chinese_subs(langs) == SelectSeq(langs, LAMBDA l : StartsWith(l.language_code, "zh"))

\* faulty variant: the first track is fetched whatever its locale
SelectedLanguage_first(langs) == langs[1].language_code

\* the language handed to get_transcript (lines 255-260)
SelectedLanguage(langs) ==
    IF chinese_subs(langs) # <<>> THEN chinese_subs(langs)[1].language_code
    ELSE langs[1].language_code

\* every exception class of the model; `except Exception` catches them all
Exceptions == RunErrors \cup CaptionErrors
              \cup {"ValueError", "KeyError", "OSError", "UnicodeDecodeError", "Exception"}

\* what a call hands back: a value, or an exception of class exc
Value(v) == [kind |-> "value", value |-> v, exc |-> ""]
Raise(cls, msg) == [kind |-> "raise", value |-> msg, exc |-> cls]
NoRet == [kind |-> "none", value |-> "", exc |-> ""]

\* the handlers of the source: the classes each of them catches
\* line 41, except Exception
CaughtList == Exceptions
\* faulty variant: `except TranscriptsDisabled` alone
CaughtFetch_disabledOnly == {"TranscriptsDisabled"}

\* line 58, except (TranscriptsDisabled, Exception)
CaughtFetch == Exceptions

\* line 80, except (subprocess.SubprocessError, FileNotFoundError)
CaughtCheck == {"CalledProcessError", "FileNotFoundError"}
\* line 121, except subprocess.CalledProcessError
CaughtDownload == {"CalledProcessError"}
\* line 154, except (subprocess.SubprocessError, FileNotFoundError)
CaughtWhisper == {"CalledProcessError", "FileNotFoundError"}
\* line 167, except Exception
CaughtWhisperApi == Exceptions
\* line 181, except Exception
CaughtOuter == Exceptions
\* line 206, except Exception
CaughtLocal == Exceptions

\* faulty variant: the pipeline catches connection errors only
CaughtFacade_narrow == {"ConnectionError"}

\* line 276, except Exception
CaughtFacade == Exceptions

\* faulty variant: the handler of line 80 reports the missing tool and
\* goes on (no return)
CheckVerdict_noReturn(o) ==
    IF o = "ok" \/ o \in {"CalledProcessError", "FileNotFoundError"} THEN "go on"
    ELSE "error"

\* lines 78-83: what the ffmpeg check makes of the outcome of the command
CheckVerdict(o) ==
    IF o = "ok" THEN "go on"
    ELSE IF o \in CaughtCheck THEN "missing"
    ELSE "error"

\* get_available_transcript_languages (lines 29-43)
get_available_transcript_languages(reply) ==
    IF reply.error = "none" THEN Value(LanguagesOf(reply.tracks))
    ELSE IF reply.error \in CaughtList THEN Value(<<>>)
    ELSE Raise(reply.error, ExcText(reply.error))

\* get_transcript (lines 45-60): the pair (text, success) it returns
get_transcript(reply) ==
    IF reply.error = "none" THEN Value([text |-> JoinTexts(reply.entries), ok |-> TRUE])
    ELSE IF reply.error \in CaughtFetch THEN Value([text |-> "", ok |-> FALSE])
    ELSE Raise(reply.error, ExcText(reply.error))

\* faulty variant: the object keeps the first caption entry only
StoredAfterFetch_firstEntryOnly(old, reply) ==
    IF reply.error = "none"
    THEN Some(IF reply.entries = <<>> THEN "" ELSE reply.entries[1].text)
    ELSE old

\* self.transcript after get_transcript (line 56 is skipped on an error)
StoredAfterFetch(old, reply) ==
    IF reply.error = "none" THEN Some(JoinTexts(reply.entries)) ELSE old

\* faulty variant: a non-200 answer raises (raise_for_status) instead of being formatted
LocalTry_raiseForStatus(r) ==
    IF r.raised THEN Raise("ConnectionError", ExcText("ConnectionError"))
    ELSE IF r.status = 200
         THEN IF r.answer # None THEN Value(r.answer[1])
              ELSE Raise("KeyError", ExcText("KeyError"))
         ELSE Raise("Exception", MsgAnalysisFailed(r.status, r.text))

\* the try block of analyze_with_local_llm (lines 190-204)
LocalTry(r) ==
    IF r.raised THEN Raise("ConnectionError", ExcText("ConnectionError"))
    ELSE IF r.status = 200
         THEN IF r.answer # None THEN Value(r.answer[1])
              ELSE Raise("KeyError", ExcText("KeyError"))
         ELSE Value(MsgAnalysisFailed(r.status, r.text))

\* analyze_with_local_llm once the request was made (lines 190-208)
LocalAnalysis(r) ==
    IF LocalTry(r).kind = "raise" /\ LocalTry(r).exc \in CaughtLocal
    THEN Value(MsgAnalysisError(LocalTry(r).value))
    ELSE LocalTry(r)

\* faulty variant: a non-200 answer is returned as a text, as the local method does
RemoteAnalysis_returnsMessage(r) ==
    IF r.raised THEN Raise("ConnectionError", ExcText("ConnectionError"))
    ELSE IF r.status = 200
         THEN IF r.answer # None THEN Value(r.answer[1])
              ELSE Raise("KeyError", ExcText("KeyError"))
         ELSE Value(MsgApiFailed(r.status, r.text))

\* analyze_with_claude_basic once the request was made (lines 234-243)
RemoteAnalysis(r) ==
    IF r.raised THEN Raise("ConnectionError", ExcText("ConnectionError"))
    ELSE IF r.status = 200
         THEN IF r.answer # None THEN Value(r.answer[1])
              ELSE Raise("KeyError", ExcText("KeyError"))
         ELSE Raise("Exception", MsgApiFailed(r.status, r.text))

\* `if available_languages:` (line 253)
HasTracks(langs) == langs # <<>>

\* faulty variant: `if success and not transcript`
NeedFallback_successOnly(text, ok) == ok /\ text = ""

\* faulty variant: `if not success`, the empty text is not looked at
NeedFallback_noEmptyCheck(text, ok) == ~ok

\* faulty variant: `if not success or transcript`
NeedFallback_missingNot(text, ok) == ~ok \/ text # ""

\* `if not success or not transcript` (line 265)
NeedFallback(text, ok) == ~ok \/ text = ""

\* audio_files of lines 98-99: every file that starts with the video id
\* except f"{video_id}.mp3"
audio_files(fs) == {f \in fs : f # ".mp3"}

(***************************************************************************)
(* State.                                                                  *)
(***************************************************************************)
VARIABLES
    mode,                \* "facade": process_youtube_video runs; "direct": a caller uses the class
    pc,                  \* position in the code
    video_url,           \* self.video_url
    video_id,            \* self.video_id (None before the constructor has set it)
    stored,              \* self.transcript (None or Some(text))
    available_languages, \* local of process_youtube_video
    transcript,          \* local of process_youtube_video
    success,             \* local of process_youtube_video
    analysis_result,     \* local of process_youtube_video ("" before line 270)
    result,              \* what process_youtube_video returned (None before)
    raised,              \* exception that left the constructor or the pipeline (None if none)
    ret,                 \* what the last direct method call returned or raised
    method,              \* the method a direct caller called last ("" before the first call)
    ncalls,              \* the direct calls made so far
    prompt,              \* prompt argument of the analysis call in progress
    given_dir,           \* the directory a direct caller passes as output_dir, as the last
                         \* call that used it left it (None before its first use)
    temp_dir,            \* TRUE when output_dir is a fresh tempfile.mkdtemp()
    files,               \* files of output_dir that start with the video id
    txt,                 \* content of f"{video_id}.txt" when it exists
    downloaded_file,     \* local of download_audio_and_transcribe (None before line 104)
    listed,              \* log: what list_transcripts answered to each listing of the run
    fetched,             \* log: the get_transcript calls of the run (language, service error, text, ok)
    calls,               \* log: how often each collaborator or method was invoked
    ran,                 \* log: outcome of each step of the current transcription call
    exit,                \* log: how the last transcription call ended, and its value
    requests             \* log: the HTTP exchanges (url, prompt, reply)

objVars == <<video_url, video_id, stored>>
facadeVars == <<available_languages, transcript, success, analysis_result, result>>
callerVars == <<mode, given_dir, ret, method, ncalls, prompt, raised>>
dirVars == <<temp_dir, files, txt, downloaded_file>>
logVars == <<listed, fetched, calls, ran, exit, requests>>
vars == <<pc, objVars, facadeVars, callerVars, dirVars, logVars>>

Counted == {"listing", "fetch", "fallback", "check", "download", "convert",
            "combined", "whisper_cli", "whisper_api"}
FallbackSteps == {"mkdir", "check", "download", "listdir", "convert", "combined",
                  "whisper_cli", "whisper_api"}
NoRuns == [s \in FallbackSteps |-> "none"]
NoExit == [how |-> "none", value |-> ""]
NoCalls == [s \in Counted |-> 0]
Bump(c) == [calls EXCEPT ![c] = @ + 1]

Init ==
    /\ mode \in {"facade", "direct"}
    /\ pc = "new"
    /\ video_url \in Urls
    /\ video_id = None
    /\ stored = None
    /\ available_languages = <<>>
    /\ transcript = ""
    /\ success = FALSE
    /\ analysis_result = ""
    /\ result = None
    /\ raised = None
    /\ ret = NoRet
    /\ method = ""
    /\ ncalls = 0
    /\ prompt = ""
    /\ given_dir = None
    /\ temp_dir = TRUE
    /\ files = {}
    /\ txt = ""
    /\ downloaded_file = None
    /\ listed = <<>>
    /\ fetched = <<>>
    /\ calls = NoCalls
    /\ ran = NoRuns
    /\ exit = NoExit
    /\ requests = <<>>

(***************************************************************************)
(* Control transfer.  An exception no handler catches leaves the pipeline  *)
(* (facade) or reaches the direct caller, who sees it and goes on.         *)
(***************************************************************************)
Goto(p) == pc' = p /\ UNCHANGED <<raised, ret>>

Propagate(cls, msg) ==
    IF mode = "facade"
    THEN pc' = "raised" /\ raised' = Some(cls) /\ UNCHANGED ret
    ELSE pc' = "returned" /\ ret' = Raise(cls, msg) /\ UNCHANGED raised

(***************************************************************************)
(* YouTubeExtractor.__init__ (lines 11-14), called by line 247 or by a     *)
(* direct caller.                                                          *)
(***************************************************************************)
Construct ==
    /\ pc = "new"
    /\ LET id == extract_video_id(video_url)
       IN  IF id = None
           THEN /\ raised' = Some("ValueError")
                /\ pc' = "raised"
                /\ UNCHANGED <<video_id, stored>>
           ELSE /\ video_id' = id
                /\ stored' = None
                /\ pc' = IF mode = "facade" THEN "list" ELSE "idle"
                /\ UNCHANGED raised
    /\ UNCHANGED <<video_url, facadeVars, mode, given_dir, ret, method, ncalls, prompt, dirVars, logVars>>

(***************************************************************************)
(* process_youtube_video, lines 251-262: captions.                         *)
(***************************************************************************)
\* line 251
ListTracks ==
    /\ pc = "list"
    /\ calls' = Bump("listing")
    /\ \E reply \in ListReplies :
          LET r == get_available_transcript_languages(reply)
          IN  /\ listed' = Append(listed, reply)
              /\ IF r.kind = "value"
                 THEN available_languages' = r.value /\ Goto("select")
                 ELSE UNCHANGED available_languages /\ Propagate(r.exc, r.value)
    /\ UNCHANGED <<objVars, transcript, success, analysis_result, result,
                   mode, given_dir, method, ncalls, prompt, dirVars, fetched, ran, exit, requests>>

\* lines 253-260: a catalogue was listed, one track is fetched
FetchCaptions ==
    /\ pc = "select"
    /\ HasTracks(available_languages)
    /\ calls' = Bump("fetch")
    /\ \E reply \in FetchReplies :
          LET language == SelectedLanguage(available_languages)
              r == get_transcript(reply)
          IN  /\ stored' = StoredAfterFetch(stored, reply)
              /\ IF r.kind = "value"
                 THEN /\ transcript' = r.value.text
                      /\ success' = r.value.ok
                      /\ fetched' = Append(fetched, [language |-> Some(language),
                                                     error |-> reply.error,
                                                     text |-> r.value.text,
                                                     ok |-> r.value.ok])
                      /\ Goto("step2")
                 ELSE /\ UNCHANGED <<transcript, success>>
                      /\ fetched' = Append(fetched, [language |-> Some(language),
                                                     error |-> reply.error,
                                                     text |-> "", ok |-> FALSE])
                      /\ Propagate(r.exc, r.value)
    /\ UNCHANGED <<video_url, video_id, available_languages, analysis_result, result,
                   mode, given_dir, method, ncalls, prompt, dirVars, listed, ran, exit, requests>>

\* lines 261-262: nothing was listed
NoCaptions ==
    /\ pc = "select"
    /\ ~HasTracks(available_languages)
    /\ transcript' = ""
    /\ success' = FALSE
    /\ Goto("step2")
    /\ UNCHANGED <<objVars, available_languages, analysis_result, result,
                   mode, given_dir, method, ncalls, prompt, dirVars, logVars>>

(***************************************************************************)
(* download_audio_and_transcribe (lines 62-183), one action per external   *)
(* call.  FbReturn is a return statement of the method: the value goes to  *)
(* the local `transcript` of line 267 or to the direct caller.             *)
(***************************************************************************)
FbGoto(p) == Goto(p) /\ UNCHANGED <<transcript, exit>>

FbReturn(value, how) ==
    /\ exit' = [how |-> how, value |-> value]
    /\ pc' = IF mode = "facade" THEN "step3" ELSE "returned"
    /\ transcript' = IF mode = "facade" THEN value ELSE transcript
    /\ ret' = IF mode = "facade" THEN ret ELSE Value(value)
    /\ UNCHANGED raised

\* an exception inside the outer try: the handler of lines 181-183
FbRaise(cls, msg) ==
    IF cls \in CaughtOuter
    THEN FbReturn(MsgProcessFailed(msg), "exception")
    ELSE /\ Propagate(cls, msg)
         /\ exit' = [how |-> "raised", value |-> msg]
         /\ UNCHANGED transcript

\* faulty variant: after a failed or empty fetch the captions are tried once
\* more before the fallback is entered
Step2_retryFetch ==
    /\ pc = "step2"
    /\ IF NeedFallback(transcript, success) /\ HasTracks(available_languages)
          /\ calls["fetch"] < 2
       THEN /\ pc' = "select"
            /\ UNCHANGED <<temp_dir, calls, ran, exit>>
       ELSE IF NeedFallback(transcript, success)
            THEN /\ pc' = "mkdir"
                 /\ temp_dir' = TRUE
                 /\ calls' = Bump("fallback")
                 /\ ran' = NoRuns
                 /\ exit' = NoExit
            ELSE /\ pc' = "step3"
                 /\ UNCHANGED <<temp_dir, calls, ran, exit>>
    /\ UNCHANGED <<objVars, facadeVars, callerVars, files, txt, downloaded_file,
                   listed, fetched, requests>>

\* lines 265-267: the fallback is entered, or skipped
Step2 ==
    /\ pc = "step2"
    /\ IF NeedFallback(transcript, success)
       THEN /\ pc' = "mkdir"
            /\ temp_dir' = TRUE
            /\ calls' = Bump("fallback")
            /\ ran' = NoRuns
            /\ exit' = NoExit
       ELSE /\ pc' = "step3"
            /\ UNCHANGED <<temp_dir, calls, ran, exit>>
    /\ UNCHANGED <<objVars, facadeVars, callerVars, files, txt, downloaded_file,
                   listed, fetched, requests>>

\* lines 66-72: the work directory: a new temporary one, or the one the
\* caller gave, with what it holds (what the last call left in it, or,
\* on its first use, what the caller had in it)
MakeDir ==
    /\ pc = "mkdir"
    /\ \E o \in {"ok", "PermissionError"} :
          /\ ran' = [ran EXCEPT !["mkdir"] = o]
          /\ IF o = "ok"
             THEN /\ IF ~temp_dir /\ given_dir # None
                     THEN /\ files' = given_dir[1].files
                          /\ txt' = given_dir[1].txt
                     ELSE \E fs \in (IF temp_dir THEN {{}} ELSE GivenDirFiles) :
                             /\ files' = fs
                             /\ txt' = IF ".txt" \in fs THEN StaleText ELSE ""
                  /\ downloaded_file' = None
                  /\ FbGoto("check")
             ELSE /\ FbRaise(o, ExcText(o))
                  /\ UNCHANGED <<files, txt, downloaded_file>>
    /\ UNCHANGED <<objVars, available_languages, success, analysis_result, result,
                   mode, given_dir, method, ncalls, prompt, temp_dir, listed, fetched, calls, requests>>

\* lines 78-83: ffmpeg -version
CheckFfmpeg ==
    /\ pc = "check"
    /\ calls' = Bump("check")
    /\ \E o \in RunOutcomes :
          /\ ran' = [ran EXCEPT !["check"] = o]
          /\ IF CheckVerdict(o) = "go on" THEN FbGoto("download")
             ELSE IF CheckVerdict(o) = "missing"
                  THEN FbReturn(MsgMissingFfmpeg, "missing_ffmpeg")
                  ELSE FbRaise(o, ExcText(o))
    /\ UNCHANGED <<objVars, available_languages, success, analysis_result, result,
                   mode, given_dir, method, ncalls, prompt, dirVars, listed, fetched, requests>>

\* what a command that failed can leave in the directory: nothing when it
\* could not be started, nothing or its (unfinished) output file f when it
\* exited with an error
ToolLeaves(o, f) == IF o = "CalledProcessError" THEN {{}, {f}} ELSE {{}}

\* what the raw download can leave in the directory
DownloadLeaves(o) ==
    IF o = "ok" THEN {{".webm"}, {".mp3"}, {}}
    ELSE IF o = "CalledProcessError" THEN {{}, {".webm.part"}}
    ELSE {{}}

\* lines 93-95: yt-dlp -f bestaudio
Download ==
    /\ pc = "download"
    /\ calls' = Bump("download")
    /\ \E o \in RunOutcomes :
          /\ ran' = [ran EXCEPT !["download"] = o]
          /\ \E left \in DownloadLeaves(o) : files' = files \cup left
          /\ IF o = "ok" THEN FbGoto("listdir")
             ELSE IF o \in CaughtDownload THEN FbGoto("combined")
             ELSE FbRaise(o, ExcText(o))
    /\ UNCHANGED <<objVars, available_languages, success, analysis_result, result,
                   mode, given_dir, method, ncalls, prompt, temp_dir, txt, downloaded_file,
                   listed, fetched, requests>>

\* lines 98-104: the downloaded file is looked up (os.listdir has no
\* defined order, so audio_files[0] is any of them)
FindDownloaded ==
    /\ pc = "listdir"
    /\ IF audio_files(files) = {}
       THEN /\ ran' = [ran EXCEPT !["listdir"] = "FileNotFoundError"]
            /\ IF "FileNotFoundError" \in CaughtDownload
               THEN FbGoto("combined")
               ELSE FbRaise("FileNotFoundError", MsgDownloadedNotFound)
            /\ UNCHANGED downloaded_file
       ELSE /\ ran' = [ran EXCEPT !["listdir"] = "ok"]
            /\ \E f \in audio_files(files) : downloaded_file' = Some(f)
            /\ FbGoto("convert")
    /\ UNCHANGED <<objVars, available_languages, success, analysis_result, result,
                   mode, given_dir, method, ncalls, prompt, temp_dir, files, txt,
                   listed, fetched, calls, requests>>

\* line 119: what os.remove(downloaded_file) raises when the file cannot be
\* deleted (an immutable file, a file of another user in a sticky directory)
RemoveErrors == {"PermissionError"}

\* lines 108-119: ffmpeg -i downloaded_file ... audio_path, then os.remove.
\* The step fails when ffmpeg fails, or when ffmpeg exited 0 and os.remove
\* raises: then what ffmpeg wrote and the downloaded file both stay
Convert ==
    /\ pc = "convert"
    /\ calls' = Bump("convert")
    /\ \E o \in RunOutcomes :
          /\ ran' = [ran EXCEPT !["convert"] = o]
          /\ IF o = "ok"
             THEN /\ \E wrote \in {{".mp3"}, {}} :
                        files' = (files \cup wrote) \ {downloaded_file[1]}
                  /\ FbGoto("check_audio")
             ELSE /\ \/ \E left \in ToolLeaves(o, ".mp3") : files' = files \cup left
                     \/ /\ o \in RemoveErrors
                        /\ \E wrote \in {{".mp3"}, {}} : files' = files \cup wrote
                  /\ IF o \in CaughtDownload THEN FbGoto("combined")
                     ELSE FbRaise(o, ExcText(o))
    /\ UNCHANGED <<objVars, available_languages, success, analysis_result, result,
                   mode, given_dir, method, ncalls, prompt, temp_dir, txt, downloaded_file,
                   listed, fetched, requests>>

\* lines 121-133: yt-dlp --extract-audio, run inside the handler of line
\* 121, so that its own failure goes to the outer handler
Combined ==
    /\ pc = "combined"
    /\ calls' = Bump("combined")
    /\ \E o \in RunOutcomes :
          /\ ran' = [ran EXCEPT !["combined"] = o]
          /\ IF o = "ok"
             THEN /\ \E wrote \in {{".mp3"}, {}} : files' = files \cup wrote
                  /\ FbGoto("check_audio")
             ELSE /\ \E left \in ToolLeaves(o, ".mp3") : files' = files \cup left
                  /\ FbRaise(o, ExcText(o))
    /\ UNCHANGED <<objVars, available_languages, success, analysis_result, result,
                   mode, given_dir, method, ncalls, prompt, temp_dir, txt, downloaded_file,
                   listed, fetched, requests>>

\* faulty variant: a missing audio file sends the call back to the raw
\* download once more
CheckAudio_retryDownload ==
    /\ pc = "check_audio"
    /\ IF ".mp3" \in files THEN FbGoto("whisper_cli")
       ELSE IF calls["download"] < 2 THEN FbGoto("download")
       ELSE FbRaise("FileNotFoundError", MsgAudioNotFound)
    /\ UNCHANGED <<objVars, available_languages, success, analysis_result, result,
                   mode, given_dir, method, ncalls, prompt, dirVars, listed, fetched, calls, ran, requests>>

\* lines 135-136: os.path.exists(audio_path)
CheckAudio ==
    /\ pc = "check_audio"
    /\ IF ".mp3" \in files THEN FbGoto("whisper_cli")
       ELSE FbRaise("FileNotFoundError", MsgAudioNotFound)
    /\ UNCHANGED <<objVars, available_languages, success, analysis_result, result,
                   mode, given_dir, method, ncalls, prompt, dirVars, listed, fetched, calls, ran, requests>>

\* lines 152-153: the whisper command line; when it exits with an error it
\* may have written its text file already, in whole or in part
WhisperCli ==
    /\ pc = "whisper_cli"
    /\ calls' = Bump("whisper_cli")
    /\ \E o \in RunOutcomes :
          /\ ran' = [ran EXCEPT !["whisper_cli"] = o]
          /\ IF o = "ok"
             THEN /\ \/ UNCHANGED <<files, txt>>
                     \/ \E t \in WhisperTexts :
                           files' = files \cup {".txt"} /\ txt' = t
                  /\ FbGoto("read_txt")
             ELSE /\ \/ UNCHANGED <<files, txt>>
                     \/ /\ o = "CalledProcessError"
                        /\ \E t \in WhisperTexts : \E left \in PartWritten(t) \cup {t} :
                              files' = files \cup {".txt"} /\ txt' = left
                  /\ IF o \in CaughtWhisper THEN FbGoto("whisper_api")
                     ELSE FbRaise(o, ExcText(o))
    /\ UNCHANGED <<objVars, available_languages, success, analysis_result, result,
                   mode, given_dir, method, ncalls, prompt, temp_dir, downloaded_file,
                   listed, fetched, requests>>

\* lines 158-169: the whisper library, its text saved to transcript_path.
\* "Exception" is an exception raised before the file is opened (import,
\* load_model, transcribe, open); "OSError" is a write the file system
\* refuses after open(transcript_path, 'w') has created or emptied the file,
\* which then holds the part of the text that was written before the refusal
WhisperApi ==
    /\ pc = "whisper_api"
    /\ calls' = Bump("whisper_api")
    /\ \/ \E t \in WhisperTexts :
             /\ ran' = [ran EXCEPT !["whisper_api"] = "ok"]
             /\ files' = files \cup {".txt"}
             /\ txt' = t
             /\ FbGoto("read_txt")
       \/ /\ ran' = [ran EXCEPT !["whisper_api"] = "Exception"]
          /\ IF "Exception" \in CaughtWhisperApi
             THEN FbReturn(MsgTranscribeFailed, "transcribe_failed")
             ELSE FbRaise("Exception", ExcText("Exception"))
          /\ UNCHANGED <<files, txt>>
       \/ /\ ran' = [ran EXCEPT !["whisper_api"] = "OSError"]
          /\ IF "OSError" \in CaughtWhisperApi
             THEN FbReturn(MsgTranscribeFailed, "transcribe_failed")
             ELSE FbRaise("OSError", ExcText("OSError"))
          /\ \E t \in WhisperTexts : \E part \in PartWritten(t) :
                /\ files' = files \cup {".txt"}
                /\ txt' = part
    /\ UNCHANGED <<objVars, available_languages, success, analysis_result, result,
                   mode, given_dir, method, ncalls, prompt, temp_dir, downloaded_file,
                   listed, fetched, requests>>

\* faulty variant: the message of the missing-file path is stored as the
\* transcript before it is returned
ReadTranscript_storesMessage ==
    /\ pc = "read_txt"
    /\ IF ".txt" \in files
       THEN \/ /\ stored' = Some(UniversalNewlines(txt))
               /\ FbReturn(UniversalNewlines(txt), "ok")
            \/ /\ ran["whisper_api"] # "ok"
               /\ UNCHANGED stored
               /\ FbRaise("UnicodeDecodeError", ExcText("UnicodeDecodeError"))
       ELSE /\ stored' = Some(MsgNoOutputFile)
            /\ FbReturn(MsgNoOutputFile, "no_output")
    /\ UNCHANGED <<video_url, video_id, available_languages, success, analysis_result,
                   result, mode, given_dir, method, ncalls, prompt, dirVars, listed, fetched, calls, ran,
                   requests>>

\* lines 172-179: the text artifact is read back in text mode, its line
\* endings translated, and what was read is stored.  A file the library path
\* has just written as UTF-8 decodes; one the whisper command or the caller
\* left may not, and f.read() then raises UnicodeDecodeError
ReadTranscript ==
    /\ pc = "read_txt"
    /\ IF ".txt" \in files
       THEN \/ /\ stored' = Some(UniversalNewlines(txt))
               /\ FbReturn(UniversalNewlines(txt), "ok")
            \/ /\ ran["whisper_api"] # "ok"
               /\ UNCHANGED stored
               /\ FbRaise("UnicodeDecodeError", ExcText("UnicodeDecodeError"))
       ELSE /\ UNCHANGED stored
            /\ FbReturn(MsgNoOutputFile, "no_output")
    /\ UNCHANGED <<video_url, video_id, available_languages, success, analysis_result,
                   result, mode, given_dir, method, ncalls, prompt, dirVars, listed, fetched, calls, ran,
                   requests>>

(***************************************************************************)
(* process_youtube_video, lines 269-285: analysis and the result.          *)
(***************************************************************************)
\* lines 270-275: the sentinel, then the local analysis if there is a transcript
Step3 ==
    /\ pc = "step3"
    /\ analysis_result' = NotPerformed
    /\ IF transcript # ""
       THEN \E q \in Prompts : prompt' = q /\ pc' = "local_guard"
       ELSE pc' = "return" /\ UNCHANGED prompt
    /\ UNCHANGED <<objVars, available_languages, transcript, success, result,
                   mode, given_dir, ret, method, ncalls, raised, dirVars, logVars>>

\* lines 280-285
Return ==
    /\ pc = "return"
    /\ result' = Some([video_id |-> video_id[1],
                       available_languages |-> available_languages,
                       transcript |-> transcript,
                       analysis |-> analysis_result])
    /\ pc' = "done"
    /\ UNCHANGED <<objVars, available_languages, transcript, success, analysis_result,
                   callerVars, dirVars, logVars>>

(***************************************************************************)
(* analyze_with_local_llm (lines 185-208).                                 *)
(***************************************************************************)
\* an exception leaves analyze_with_local_llm: the handler of lines 276-278
\* in the pipeline, the caller otherwise
LocalRaise(cls, msg) ==
    IF mode = "facade" /\ cls \in CaughtFacade
    THEN Goto("return")
    ELSE Propagate(cls, msg)

\* analyze_with_local_llm returns v (line 275 assigns it)
LocalReturn(v) ==
    /\ pc' = IF mode = "facade" THEN "return" ELSE "returned"
    /\ analysis_result' = IF mode = "facade" THEN v ELSE analysis_result
    /\ ret' = IF mode = "facade" THEN ret ELSE Value(v)
    /\ UNCHANGED raised

\* lines 187-188
LocalGuard ==
    /\ pc = "local_guard"
    /\ IF ~Truthy(stored)
       THEN LocalRaise("ValueError", ExcText("ValueError"))
       ELSE Goto("local_post")
    /\ UNCHANGED <<objVars, facadeVars, mode, given_dir, method, ncalls, prompt, dirVars, logVars>>

\* lines 190-208: the request and what is made of the answer
LocalPost ==
    /\ pc = "local_post"
    /\ \E r \in HttpReplies :
          /\ requests' = Append(requests, [url |-> LocalEndpoint,
                                           prompt |-> BuildPrompt(stored[1], prompt),
                                           reply |-> r])
          /\ IF LocalAnalysis(r).kind = "value"
             THEN LocalReturn(LocalAnalysis(r).value)
             ELSE /\ LocalRaise(LocalAnalysis(r).exc, LocalAnalysis(r).value)
                  /\ UNCHANGED analysis_result
    /\ UNCHANGED <<objVars, available_languages, transcript, success, result,
                   mode, given_dir, method, ncalls, prompt, dirVars, listed, fetched, calls, ran, exit>>

(***************************************************************************)
(* analyze_with_claude_basic (lines 210-243); only a direct caller calls   *)
(* it.                                                                     *)
(***************************************************************************)
\* lines 212-213
RemoteGuard ==
    /\ pc = "remote_guard"
    /\ IF ~Truthy(stored)
       THEN Propagate("ValueError", ExcText("ValueError"))
       ELSE Goto("remote_post")
    /\ UNCHANGED <<objVars, facadeVars, mode, given_dir, method, ncalls, prompt, dirVars, logVars>>

\* lines 215-243
RemotePost ==
    /\ pc = "remote_post"
    /\ \E r \in HttpReplies :
          /\ requests' = Append(requests, [url |-> RemoteEndpoint,
                                           prompt |-> BuildPrompt(stored[1], prompt),
                                           reply |-> r])
          /\ IF RemoteAnalysis(r).kind = "value"
             THEN pc' = "returned" /\ ret' = RemoteAnalysis(r) /\ UNCHANGED raised
             ELSE Propagate(RemoteAnalysis(r).exc, RemoteAnalysis(r).value)
    /\ UNCHANGED <<objVars, facadeVars, mode, given_dir, method, ncalls, prompt, dirVars,
                   listed, fetched, calls, ran, exit>>

(***************************************************************************)
(* A caller that uses the class directly: any method, in any order.        *)
(***************************************************************************)
CanCall == mode = "direct" /\ pc = "idle" /\ ncalls < MaxCalls

\* a call begins
Enter(name) == method' = name /\ ncalls' = ncalls + 1

CallLanguages ==
    /\ CanCall
    /\ Enter("get_available_transcript_languages")
    /\ calls' = Bump("listing")
    /\ \E reply \in ListReplies :
          /\ ret' = get_available_transcript_languages(reply)
          /\ listed' = <<reply>>
    /\ pc' = "returned"
    /\ UNCHANGED <<objVars, facadeVars, mode, given_dir, prompt, raised, dirVars,
                   fetched, ran, exit, requests>>

\* `if language` (line 48): with None the service picks its default track
CallTranscript ==
    /\ CanCall
    /\ Enter("get_transcript")
    /\ calls' = Bump("fetch")
    /\ \E language \in {None, Some("en")}, reply \in FetchReplies :
          LET r == get_transcript(reply)
          IN  /\ ret' = r
              /\ stored' = StoredAfterFetch(stored, reply)
              /\ fetched' = <<[language |-> language,
                               error |-> reply.error,
                               text |-> IF r.kind = "value" THEN r.value.text ELSE "",
                               ok |-> r.kind = "value" /\ r.value.ok]>>
    /\ pc' = "returned"
    /\ UNCHANGED <<video_url, video_id, facadeVars, mode, given_dir, prompt, raised, dirVars,
                   listed, ran, exit, requests>>

CallTranscribe ==
    /\ CanCall
    /\ Enter("download_audio_and_transcribe")
    /\ calls' = Bump("fallback")
    /\ \E given \in BOOLEAN : temp_dir' = ~given
    /\ pc' = "mkdir"
    /\ UNCHANGED <<objVars, facadeVars, mode, given_dir, ret, prompt, raised, files, txt,
                   downloaded_file, listed, fetched, ran, exit, requests>>

CallLocal ==
    /\ CanCall
    /\ Enter("analyze_with_local_llm")
    /\ \E q \in Prompts : prompt' = q
    /\ pc' = "local_guard"
    /\ UNCHANGED <<objVars, facadeVars, mode, given_dir, ret, raised, dirVars, logVars>>

CallRemote ==
    /\ CanCall
    /\ Enter("analyze_with_claude_basic")
    /\ \E q \in Prompts, k \in ApiKeys : prompt' = q
    /\ pc' = "remote_guard"
    /\ UNCHANGED <<objVars, facadeVars, mode, given_dir, ret, raised, dirVars, logVars>>

\* the caller has taken what the call returned or raised: the locals of the
\* call are gone and the logs, which describe one call, start anew; the
\* extractor object lives on, and so does the directory the caller gave
\* (a temporary directory is never used again)
Discard ==
    /\ mode = "direct"
    /\ pc = "returned"
    /\ pc' = "idle"
    /\ ret' = NoRet
    /\ method' = ""
    /\ prompt' = ""
    /\ temp_dir' = TRUE
    /\ files' = {}
    /\ txt' = ""
    /\ downloaded_file' = None
    /\ listed' = <<>>
    /\ fetched' = <<>>
    /\ calls' = NoCalls
    /\ ran' = NoRuns
    /\ exit' = NoExit
    /\ requests' = <<>>
    /\ given_dir' = IF method = "download_audio_and_transcribe" /\ ~temp_dir
                        /\ ran["mkdir"] = "ok"
                     THEN Some([files |-> files, txt |-> txt])
                     ELSE given_dir
    /\ UNCHANGED <<objVars, facadeVars, mode, ncalls, raised>>

Next ==
    \/ Construct
    \/ ListTracks
    \/ FetchCaptions
    \/ NoCaptions
    \/ Step2
    \/ MakeDir
    \/ CheckFfmpeg
    \/ Download
    \/ FindDownloaded
    \/ Convert
    \/ Combined
    \/ CheckAudio
    \/ WhisperCli
    \/ WhisperApi
    \/ ReadTranscript
    \/ Step3
    \/ LocalGuard
    \/ LocalPost
    \/ Return
    \/ RemoteGuard
    \/ RemotePost
    \/ CallLanguages
    \/ CallTranscript
    \/ CallTranscribe
    \/ CallLocal
    \/ CallRemote
    \/ Discard

Spec == Init /\ [][Next]_vars

(***************************************************************************)
(* process_youtube_video alone.  Every step is a call that returns or      *)
(* fails, or code of the function itself, so a step that can be taken is   *)
(* eventually taken: weak fairness of the next-state relation.             *)
(***************************************************************************)
PipelineInit == Init /\ mode = "facade"

PipelineNext ==
    \/ Construct
    \/ ListTracks
    \/ FetchCaptions
    \/ NoCaptions
    \/ Step2
    \/ MakeDir
    \/ CheckFfmpeg
    \/ Download
    \/ FindDownloaded
    \/ Convert
    \/ Combined
    \/ CheckAudio
    \/ WhisperCli
    \/ WhisperApi
    \/ ReadTranscript
    \/ Step3
    \/ LocalGuard
    \/ LocalPost
    \/ Return

PipelineSpec == PipelineInit /\ [][PipelineNext]_vars /\ WF_vars(PipelineNext)

(***************************************************************************)
(* The constructor alone, on every reference of ResolveUrls: the           *)
(* specification under which extract_video_id is examined.                 *)
(***************************************************************************)
ResolveInit ==
    /\ mode \in {"facade", "direct"}
    /\ pc = "new"
    /\ video_url \in ResolveUrls
    /\ video_id = None
    /\ stored = None
    /\ available_languages = <<>>
    /\ transcript = ""
    /\ success = FALSE
    /\ analysis_result = ""
    /\ result = None
    /\ raised = None
    /\ ret = NoRet
    /\ method = ""
    /\ ncalls = 0
    /\ prompt = ""
    /\ given_dir = None
    /\ temp_dir = TRUE
    /\ files = {}
    /\ txt = ""
    /\ downloaded_file = None
    /\ listed = <<>>
    /\ fetched = <<>>
    /\ calls = NoCalls
    /\ ran = NoRuns
    /\ exit = NoExit
    /\ requests = <<>>

ResolveSpec == ResolveInit /\ [][Construct]_vars

(***************************************************************************)
(* Properties.                                                             *)
(***************************************************************************)
Facade == mode = "facade"
Codes(langs) == [i \in 1..Len(langs) |-> langs[i].language_code]
SubprocessSteps == {"check", "download", "convert", "combined", "whisper_cli", "whisper_api"}
FailureExits == {"missing_ffmpeg", "exception", "transcribe_failed", "no_output"}
ResultFields == {"video_id", "available_languages", "transcript", "analysis"}

\* C1: in a pipeline run whose listed catalogue is empty, no caption fetch
\* is made and the transcription fallback is invoked exactly once: it has
\* not been invoked before line 265 and has been invoked once from then on.
C1_EmptyCatalogueOneFallback ==
    (Facade /\ calls["listing"] = 1 /\ pc # "raised" /\ available_languages = <<>>)
    => /\ calls["fetch"] = 0
       /\ fetched = <<>>
       /\ calls["fallback"] = IF pc \in {"select", "step2"} THEN 0 ELSE 1

C1_Witness ==
    /\ Facade /\ pc = "done"
    /\ result[1].available_languages = <<>>
    /\ calls["fetch"] = 0
    /\ calls["fallback"] = 1

\* C2: in a pipeline run whose caption fetch failed, or succeeded with an
\* empty text, the transcription fallback is invoked exactly once.
C2_FailedFetchOneFallback ==
    (Facade /\ pc # "raised" /\ fetched # <<>>
       /\ (~fetched[1].ok \/ fetched[1].text = ""))
    => calls["fallback"] = IF pc = "step2" THEN 0 ELSE 1

C2_Witness ==
    /\ Facade /\ pc = "done"
    /\ fetched # <<>> /\ fetched[1].ok /\ fetched[1].text = ""
    /\ calls["fallback"] = 1

\* C3: for a non-empty catalogue the pipeline fetches exactly one track:
\* the first one, in catalogue order, whose locale code starts with "zh",
\* and the first track of the catalogue when there is none.
C3_ChineseTrackPreferred ==
    (Facade /\ pc \notin {"new", "list", "select", "raised"} /\ available_languages # <<>>)
    => LET codes == Codes(available_languages)
           zh == {i \in 1..Len(codes) :
                    Len(codes[i]) >= 2 /\ SubSeq(codes[i], 1, 2) = "zh"}
       IN  /\ Len(fetched) = 1
           /\ fetched[1].language =
                 Some(IF zh = {} THEN codes[1] ELSE codes[MinOf(zh)])

C3_Witness ==
    /\ Facade /\ pc = "done"
    /\ Codes(available_languages) = <<"en", "zh-TW", "zh">>
    /\ fetched[1].language = Some("zh-TW")

\* C4: when the caption fetch succeeded with a non-empty text, the
\* transcription fallback and every step of it are never run, and the
\* transcript of the result is the fetched text.
C4_CaptionsSkipFallback ==
    (Facade /\ fetched # <<>> /\ fetched[1].ok /\ fetched[1].text # "")
    => /\ calls["fallback"] = 0
       /\ \A s \in SubprocessSteps : calls[s] = 0
       /\ ran = NoRuns
       /\ pc \notin {"mkdir", "check", "download", "listdir", "convert", "combined",
                     "check_audio", "whisper_cli", "whisper_api", "read_txt"}
       /\ result # None => result[1].transcript = fetched[1].text

C4_Witness ==
    /\ Facade /\ pc = "done"
    /\ fetched # <<>>
    /\ fetched[1].language = Some("en")
    /\ fetched[1].ok
    /\ result[1].video_id = "3MjS9w60MMw"
    /\ result[1].transcript = "hello world"
    /\ calls["fallback"] = 0

\* C5: when the transcription fallback of a pipeline run ended on one of
\* its failure paths, the pipeline raises nothing and the transcript of its
\* result is the empty text.
C5_FailedFallbackEmptyTranscript ==
    (Facade /\ pc = "done" /\ exit.how \in FailureExits)
    => /\ raised = None
       /\ result[1].transcript = ""

\* C6 as claimed: after a non-200 answer of the local endpoint the analysis
\* of the pipeline is the sentinel, and nothing is raised.
C6_Non200LeavesSentinel ==
    (Facade /\ requests # <<>> /\ ~requests[1].reply.raised
       /\ requests[1].reply.status # 200)
    => /\ raised = None
       /\ pc \in {"return", "done"}
       /\ analysis_result = NotPerformed
       /\ result # None => result[1].analysis = NotPerformed

\* C6 as amended: after a non-200 answer of the local endpoint nothing is
\* raised and the analysis of the pipeline is the failure message made of
\* the status code and the response body, which is not the sentinel.
C6_Non200ReportedInAnalysis ==
    (Facade /\ requests # <<>> /\ ~requests[1].reply.raised
       /\ requests[1].reply.status # 200)
    => LET msg == "analysis failed: " \o ToString(requests[1].reply.status)
                      \o " - " \o requests[1].reply.text
       IN  /\ raised = None
           /\ pc \in {"return", "done"}
           /\ analysis_result = msg
           /\ msg # NotPerformed
           /\ result # None => result[1].analysis = msg

C6_Witness ==
    /\ Facade /\ pc = "done"
    /\ requests # <<>>
    /\ requests[1].reply.status = 500
    /\ result[1].transcript # ""
    /\ result[1].analysis = "analysis failed: 500 - server error"

\* C7: a pipeline run raises only when the reference does not resolve, and
\* then at once; a run whose reference resolves can only stop by returning
\* the result with its four fields, whatever failed on the way.
C7_OnlyInvalidReferenceRaises ==
    Facade =>
       /\ raised # None => (pc = "raised" /\ extract_video_id(video_url) = None)
       /\ pc = "raised" => (raised = Some("ValueError") /\ calls = NoCalls)
       /\ result # None => /\ pc = "done"
                           /\ extract_video_id(video_url) # None
                           /\ DOMAIN result[1] = ResultFields
       /\ ~ENABLED Next => (pc \in {"raised", "done"} /\ (pc = "done" => result # None))

C7_Witness ==
    /\ Facade /\ pc = "done"
    /\ raised = None
    /\ fetched # <<>> /\ ~fetched[1].ok
    /\ ran["combined"] = "CalledProcessError"
    /\ result[1].analysis = NotPerformed
    /\ DOMAIN result[1] = ResultFields

\* C8: once the ffmpeg check of a transcription call has failed, no
\* download, conversion, combined download or transcription is run in that
\* call; when the tool is absent or exits with an error the call ends with
\* the missing-ffmpeg message.
C8_FailedCheckStopsCall ==
    ran["check"] \notin {"none", "ok"}
    => /\ \A s \in FallbackSteps \ {"mkdir", "check"} : ran[s] = "none"
       /\ pc \notin {"check", "download", "listdir", "convert", "combined",
                     "check_audio", "whisper_cli", "whisper_api", "read_txt"}
       /\ Facade => \A s \in SubprocessSteps \ {"check"} : calls[s] = 0
       /\ exit.how \in {"missing_ffmpeg", "exception"}
       /\ ran["check"] \in {"CalledProcessError", "FileNotFoundError"}
             => exit = [how |-> "missing_ffmpeg", value |-> MsgMissingFfmpeg]

C8_Witness ==
    /\ mode = "direct" /\ pc = "returned"
    /\ method = "download_audio_and_transcribe"
    /\ ran["check"] = "FileNotFoundError"
    /\ ret = Value(MsgMissingFfmpeg)
    /\ calls["download"] = 0

\* C9: when either analysis method starts while the stored transcript is
\* unset or empty, it raises ValueError and posts nothing.
C9_NoRequestWithoutTranscript ==
    [][ (pc \in {"local_guard", "remote_guard"} /\ (stored = None \/ stored[1] = ""))
        => /\ requests' = requests
           /\ pc' \notin {"local_post", "remote_post"}
           /\ mode = "direct" => (ret'.kind = "raise" /\ ret'.exc = "ValueError")
           /\ Facade => (pc' = "return" /\ analysis_result' = analysis_result) ]_vars

C9_Witness ==
    /\ mode = "direct" /\ pc = "returned"
    /\ method = "analyze_with_claude_basic"
    /\ stored = Some("")
    /\ ret.kind = "raise" /\ ret.exc = "ValueError"
    /\ requests = <<>>

\* C10: a pipeline run never reaches analyze_with_claude_basic and posts
\* nothing to the remote endpoint, whatever the local call did; a request to
\* the remote endpoint is only ever made by a direct call of
\* analyze_with_claude_basic.
C10_FacadeNeverCallsRemote ==
    /\ Facade => /\ pc \notin {"remote_guard", "remote_post"}
                 /\ Len(requests) <= 1
                 /\ \A i \in 1..Len(requests) : requests[i].url # RemoteEndpoint
    /\ \A i \in 1..Len(requests) :
          requests[i].url = RemoteEndpoint
          => /\ mode = "direct"
             /\ method = "analyze_with_claude_basic"

C10_Witness ==
    /\ Facade /\ pc = "done"
    /\ requests # <<>>
    /\ requests[1].reply.raised
    /\ requests[1].url = "http://localhost:11434/api/generate"
    /\ result[1].analysis # NotPerformed

\* C11: once the constructor has run, a long-form or short-link reference
\* that carries the 11-character token t has yielded exactly t, and a
\* malformed reference (one that carries no video id in either form) has
\* made it raise ValueError instead of yielding a token.
C11_ValidResolveMalformedFail ==
    pc # "new"
    => /\ \A t \in SampleTokens :
             video_url \in {LongForm(t, ""), ShortForm(t, "")}
             => (video_id = Some(t) /\ raised = None)
       /\ video_url \in MalformedUrls
             => (video_id = None /\ raised = Some("ValueError"))

\* the half of C11 that the code keeps: the two valid forms yield the same
\* token, the one the reference carries
C11_ValidFormsAgree ==
    pc # "new"
    => \A t \in SampleTokens :
          video_url \in {LongForm(t, rest) : rest \in {"", "&t=42s"}}
                        \cup {ShortForm(t, rest) : rest \in {"", "?t=42"}}
          => (video_id = Some(t) /\ raised = None)

\* C12: no error of the captions service leaves the two caption methods.  A
\* listing the service answers with an error returns the empty list, and a
\* fetch it answers with an error returns ("", False) and leaves
\* self.transcript as it was.
C12_CaptionErrorsAbsorbed ==
    [][ /\ (listed' # listed /\ listed' # <<>> /\ listed'[Len(listed')].error # "none")
           => /\ raised' = None
              /\ stored' = stored
              /\ Facade => (pc' = "select" /\ available_languages' = <<>>)
              /\ mode = "direct" => (pc' = "returned" /\ ret' = Value(<<>>))
        /\ (fetched' # fetched /\ fetched' # <<>> /\ fetched'[Len(fetched')].error # "none")
           => /\ raised' = None
              /\ stored' = stored
              /\ Facade => (pc' = "step2" /\ transcript' = "" /\ success' = FALSE)
              /\ mode = "direct"
                    => (pc' = "returned" /\ ret' = Value([text |-> "", ok |-> FALSE])) ]_vars

C12_Witness ==
    /\ mode = "direct" /\ pc = "returned"
    /\ method = "get_transcript"
    /\ fetched # <<>> /\ fetched[1].error = "ConnectionError"
    /\ ret = Value([text |-> "", ok |-> FALSE])
    /\ stored = Some("hello world")

\* C13: when analyze_with_claude_basic has posted (the stored transcript was
\* not empty) and the remote endpoint answered with a status other than
\* 200, the call raises an exception whose message has the status code and
\* the response body in it, unaltered, and returns no text.
C13_RemoteNon200Raises ==
    (mode = "direct" /\ pc = "returned" /\ method = "analyze_with_claude_basic"
       /\ requests # <<>> /\ ~requests[1].reply.raised
       /\ requests[1].reply.status # 200)
    => /\ Len(requests) = 1
       /\ requests[1].url = RemoteEndpoint
       /\ stored # None /\ stored[1] # ""
       /\ ret.kind = "raise"
       /\ ret.exc = "Exception"
       /\ ret.value = "API call failed: " \o ToString(requests[1].reply.status)
                          \o " - " \o requests[1].reply.text

C13_Witness ==
    /\ mode = "direct" /\ pc = "returned"
    /\ method = "analyze_with_claude_basic"
    /\ requests # <<>> /\ requests[1].reply.status = 500
    /\ ret = Raise("Exception", "API call failed: 500 - server error")

\* C14: whenever the primary path of the audio acquisition (raw download,
\* look-up of the downloaded file, conversion) has failed, for whatever
\* reason, the combined extract-audio command is run exactly once before the
\* call goes on or ends; and it is never run when the primary path succeeded.
C14_PrimaryFailureTriesCombined ==
    LET primaryFailed == \/ ran["download"] \notin {"none", "ok"}
                         \/ ran["listdir"] \notin {"none", "ok"}
                         \/ ran["convert"] \notin {"none", "ok"}
        primaryOk == ran["convert"] = "ok"
    IN  /\ (primaryFailed /\ pc # "combined")
              => (calls["combined"] = 1 /\ ran["combined"] # "none")
        /\ primaryOk => (calls["combined"] = 0 /\ ran["combined"] = "none")

\* C15: in a transcription call the whisper library is used if and only if
\* the whisper command failed (it is missing, or it exited with an error);
\* when the library path succeeds (the text was produced and saved) its text
\* is in the text file and the call returns, and stores, exactly that text;
\* when the library path fails too (the library raises, or the file system
\* refuses the text) the call ends with the transcription-failed message
\* and self.transcript keeps its value.  The text-mode read of lines 173-174
\* breaks the middle part for a text with a carriage return: what the call
\* returns is UniversalNewlines of what the library produced.
C15_LibraryOnlyAfterCommandFailed ==
    [][ /\ pc' # "whisper_api"
           => (ran'["whisper_api"] # "none"
                  <=> ran'["whisper_cli"] \in {"CalledProcessError", "FileNotFoundError"})
        /\ (pc = "whisper_api" /\ ran'["whisper_api"] = "ok")
           => /\ pc' = "read_txt"
              /\ ".txt" \in files'
              /\ txt' \in WhisperTexts
        /\ (pc = "read_txt" /\ ran["whisper_api"] = "ok")
           => /\ exit' = [how |-> "ok", value |-> txt]
              /\ stored' = Some(txt)
              /\ Facade => transcript' = txt
              /\ mode = "direct" => ret' = Value(txt)
        /\ (pc = "whisper_api" /\ ran'["whisper_api"] \notin {"none", "ok"})
           => /\ exit' = [how |-> "transcribe_failed", value |-> MsgTranscribeFailed]
              /\ stored' = stored
              /\ Facade => transcript' = MsgTranscribeFailed
              /\ mode = "direct" => ret' = Value(MsgTranscribeFailed) ]_vars

\* C16: when a transcription call that works in a fresh temporary directory
\* has ended, on whatever path, no raw download (a downloaded file that was
\* not converted) is left in that directory; in particular the raw file is
\* gone when the conversion failed after a successful download.
C16_NoRawFileLeftInTempDir ==
    (temp_dir /\ exit.how # "none")
    => /\ files \cap {".webm", ".webm.part"} = {}
       /\ (ran["download"] = "ok" /\ ran["convert"] \notin {"none", "ok"})
             => (downloaded_file # None /\ downloaded_file[1] \notin files)

\* C17: a pipeline run fetches captions at most once: after a failed or
\* empty fetch the fallback starts without another fetch, for another
\* locale or for the default track; and the catalogue of the result is the
\* one the listing returned, unchanged.
C17_OneFetchCatalogueKept ==
    Facade =>
       /\ calls["fetch"] <= 1
       /\ Len(fetched) = calls["fetch"]
       /\ \A i \in 1..Len(fetched) : fetched[i].language # None
       /\ (calls["fallback"] = 1 /\ available_languages # <<>>) => Len(fetched) = 1
       /\ Len(listed) <= 1
       /\ (listed # <<>> /\ pc # "raised")
             => available_languages =
                   (IF listed[1].error = "none" THEN listed[1].tracks ELSE <<>>)
       /\ result # None
             => result[1].available_languages =
                   (IF listed[1].error = "none" THEN listed[1].tracks ELSE <<>>)

C17_Witness ==
    /\ Facade /\ pc = "done"
    /\ Codes(listed[1].tracks) = <<"zh", "en">>
    /\ Len(fetched) = 1
    /\ fetched[1].language = Some("zh") /\ ~fetched[1].ok
    /\ calls["fallback"] = 1
    /\ result[1].available_languages = listed[1].tracks

\* C18: in a pipeline run, from the moment the local analysis is about to
\* post, the stored transcript is the pipeline's transcript; the request
\* embeds that text, and the transcript of the result is the same text.
C18_AnalysedTextIsReturnedText ==
    Facade =>
       /\ pc = "local_post" => stored = Some(transcript)
       /\ requests # <<>>
             => /\ stored = Some(transcript)
                /\ transcript # ""
                /\ requests[1].prompt =
                      "subtitles of the video:\n\n" \o transcript \o "\n\n" \o prompt
                /\ result # None => result[1].transcript = stored[1]

C18_Witness ==
    /\ Facade /\ pc = "done"
    /\ exit.how = "ok"
    /\ requests # <<>>
    /\ requests[1].prompt = "subtitles of the video:\n\nspoken words\n\nlist the main points"
    /\ result[1].transcript = "spoken words"

\* C19: when the transcription fallback of a pipeline run ended on a failure
\* path, the message it returned is never sent to an inference endpoint: no
\* request is made in that run and the analysis of the result is the
\* sentinel.
C19_FailureMessageNotAnalysed ==
    (Facade /\ exit.how \in FailureExits)
    => /\ requests = <<>>
       /\ pc \notin {"local_post", "remote_guard", "remote_post"}
       /\ (stored = None \/ stored[1] = "")
       /\ transcript = exit.value
       /\ result # None => /\ result[1].analysis = NotPerformed
                           /\ result[1].transcript = exit.value

C19_Witness ==
    /\ Facade /\ pc = "done"
    /\ exit = [how |-> "no_output", value |-> MsgNoOutputFile]
    /\ ran["whisper_cli"] = "ok"
    /\ requests = <<>>
    /\ result[1].transcript = MsgNoOutputFile
    /\ result[1].analysis = NotPerformed

\* C20: every pipeline run terminates (it returns its result or raises), and
\* along the run the listing, the caption fetch, the fallback with its
\* ffmpeg check, raw download, conversion, combined download, whisper
\* command and whisper library call, and the local request are each made at
\* most once: no step is retried.
C20_TerminatesWithoutRetry ==
    /\ [](/\ \A c \in Counted : calls[c] <= 1
          /\ Len(listed) <= 1
          /\ Len(fetched) <= 1
          /\ Len(requests) <= 1)
    /\ <>(pc \in {"done", "raised"})

C20_Witness ==
    /\ Facade /\ pc = "done"
    /\ \A c \in Counted : calls[c] = 1
    /\ Len(requests) = 1
    /\ ran["convert"] = "CalledProcessError"
    /\ ran["whisper_cli"] = "CalledProcessError"
    /\ result[1].analysis = "summary"

====
